---- MODULE Spec2Model ----
(***************************************************************************)
(* Model of src/constant.ts: the Constant parse node of a protobuf schema  *)
(* parser.  Constant.parse drives a Scanner (the token source), classifies *)
(* the literal, and builds a Constant whose constructor derives `value`    *)
(* from the raw text.  toProto, toJSON and accept operate on the node.     *)
(*                                                                         *)
(* Text is modelled as a sequence of one-character strings so that slice,  *)
(* concatenation and Number() are computed, not assumed.                   *)
(***************************************************************************)
EXTENDS Integers, Sequences, FiniteSets, TLC

VARIABLES
    input,      \* the token stream behind the scanner: Seq of [kind, text]
    nlAt,       \* index of the token preceded by a line break (0: none)
    scanner,    \* Scanner state: [idx, tok, contents, startPos, endPos]
    pc,         \* position of Constant.parse
    token,      \* parse local `token` (line 69)
    start,      \* parse local `start` (line 70)
    value,      \* parse local `value` (line 71)
    type,       \* parse local `type`  (line 72)
    sign,       \* parse local `sign`  (line 87)
    fetches,    \* number of awaited token-source operations so far
    scans,      \* number of scanner.scan() calls made by parse itself
    node,       \* the Constant returned by parse (NoNode before/without)
    err,        \* "none", "TokenError" or "ScanError"
    out         \* result of the last operation invoked on the node

vars == <<input, nlAt, scanner, pc, token, start, value, type, sign,
          fetches, scans, node, err, out>>

(***************************************************************************)
(* Bounds                                                                  *)
(***************************************************************************)
MaxTokens == 3

(***************************************************************************)
(* Text helpers                                                            *)
(***************************************************************************)
T_true  == <<"t", "r", "u", "e">>
T_false == <<"f", "a", "l", "s", "e">>
T_inf   == <<"i", "n", "f">>
T_nan   == <<"n", "a", "n">>
T_minus == <<"-">>
T_plus  == <<"+">>
T_dot   == <<".">>
T_my    == <<"m", "y">>
T_str   == <<"\"", "a", "\"">>
T_int   == <<"1", "2">>
T_hex   == <<"0", "x", "1", "F">>
T_big   == <<"1", "e", "9", "9", "9">>
T_Infinity == <<"I", "n", "f", "i", "n", "i", "t", "y">>

Digits == {"0", "1", "2", "3", "4", "5", "6", "7", "8", "9"}
HexDigits == Digits \cup {"a", "b", "c", "d", "e", "f", "A", "B", "C", "D", "E", "F"}

DigitVal(c) ==
    CASE c = "0" -> 0 [] c = "1" -> 1 [] c = "2" -> 2 [] c = "3" -> 3
      [] c = "4" -> 4 [] c = "5" -> 5 [] c = "6" -> 6 [] c = "7" -> 7
      [] c = "8" -> 8 [] c = "9" -> 9
      [] c \in {"a", "A"} -> 10 [] c \in {"b", "B"} -> 11
      [] c \in {"c", "C"} -> 12 [] c \in {"d", "D"} -> 13
      [] c \in {"e", "E"} -> 14 [] c \in {"f", "F"} -> 15

AllIn(s, S) == \A i \in 1..Len(s) : s[i] \in S

\* first index of s holding a character of S, 0 when there is none
IndexOf(s, S) ==
    IF \E i \in 1..Len(s) : s[i] \in S
    THEN CHOOSE i \in 1..Len(s) : s[i] \in S /\ \A j \in 1..(i - 1) : s[j] \notin S
    ELSE 0

RECURSIVE RadixVal(_, _)
RadixVal(s, radix) ==
    IF s = <<>> THEN 0
    ELSE RadixVal(SubSeq(s, 1, Len(s) - 1), radix) * radix + DigitVal(s[Len(s)])

\* String.prototype.slice(1, -1)
Slice1(s) == SubSeq(s, 2, Len(s) - 1)

(***************************************************************************)
(* JavaScript Number(text), as used by the constructor (line 37).          *)
(* A number is [k, neg, mant, exp]: k = "nan", "inf", or "fin" with value  *)
(* (-1)^neg * mant * 10^exp.  Covers the StringNumericLiteral grammar:     *)
(* empty text, 0x/0o/0b integers, Infinity, and signed decimal literals    *)
(* with optional fraction and exponent; anything else is NaN.  A decimal   *)
(* literal above the largest double (1.797...e308) converts to Infinity;   *)
(* the comparison uses the four leading digits of the mantissa.            *)
(***************************************************************************)
NaN == [k |-> "nan", neg |-> FALSE, mant |-> 0, exp |-> 0]
Infinite(neg) == [k |-> "inf", neg |-> neg, mant |-> 0, exp |-> 0]
Finite(neg, mant, exp) == [k |-> "fin", neg |-> neg, mant |-> mant, exp |-> exp]

RECURSIVE NumDigits(_)
NumDigits(n) == IF n < 10 THEN 1 ELSE 1 + NumDigits(n \div 10)

RECURSIVE Pow10(_)
Pow10(n) == IF n = 0 THEN 1 ELSE 10 * Pow10(n - 1)

Lead4(mant) ==
    LET nd == NumDigits(mant)
    IN  IF nd <= 4 THEN mant * Pow10(4 - nd) ELSE mant \div Pow10(nd - 4)

Overflows(mant, exp) ==
    /\ mant # 0
    /\ LET order == NumDigits(mant) + exp
       IN  order > 309 \/ (order = 309 /\ Lead4(mant) > 1797)

RadixOf(c) ==
    CASE c \in {"x", "X"} -> 16 [] c \in {"o", "O"} -> 8
      [] c \in {"b", "B"} -> 2 [] OTHER -> 0

RadixDigits(radix) ==
    CASE radix = 16 -> HexDigits
      [] radix = 8 -> {"0", "1", "2", "3", "4", "5", "6", "7"}
      [] radix = 2 -> {"0", "1"}
      [] OTHER -> {}

DecimalNumber(neg, body) ==
    LET ePos    == IndexOf(body, {"e", "E"})
        mpart   == IF ePos = 0 THEN body ELSE SubSeq(body, 1, ePos - 1)
        epart   == IF ePos = 0 THEN <<>> ELSE SubSeq(body, ePos + 1, Len(body))
        esigned == epart # <<>> /\ epart[1] \in {"+", "-"}
        eneg    == esigned /\ epart[1] = "-"
        edigits == IF esigned THEN Tail(epart) ELSE epart
        eOK     == ePos = 0 \/ (edigits # <<>> /\ AllIn(edigits, Digits))
        dPos    == IndexOf(mpart, {"."})
        ipart   == IF dPos = 0 THEN mpart ELSE SubSeq(mpart, 1, dPos - 1)
        fpart   == IF dPos = 0 THEN <<>> ELSE SubSeq(mpart, dPos + 1, Len(mpart))
        mOK     == /\ AllIn(ipart, Digits) /\ AllIn(fpart, Digits)
                   /\ Len(ipart) + Len(fpart) > 0
    IN  IF ~(eOK /\ mOK) THEN NaN
        ELSE LET mant == RadixVal(ipart \o fpart, 10)
                 ev   == RadixVal(edigits, 10)
                 exp  == (IF eneg THEN 0 - ev ELSE ev) - Len(fpart)
             IN  IF Overflows(mant, exp) THEN Infinite(neg)
                 ELSE Finite(neg, mant, exp)

Number(s) ==
    IF s = <<>> THEN Finite(FALSE, 0, 0)
    ELSE IF Len(s) >= 3 /\ s[1] = "0" /\ RadixOf(s[2]) # 0
    THEN LET radix == RadixOf(s[2])
             ds    == SubSeq(s, 3, Len(s))
         IN  IF AllIn(ds, RadixDigits(radix))
             THEN Finite(FALSE, RadixVal(ds, radix), 0) ELSE NaN
    ELSE LET signed == s[1] \in {"+", "-"}
             neg    == s[1] = "-"
             body   == IF signed THEN Tail(s) ELSE s
         IN  IF body = T_Infinity THEN Infinite(neg)
             ELSE DecimalNumber(neg, body)

isFinite(x) == x.k = "fin"
isNaN(x) == x.k = "nan"

(***************************************************************************)
(* Constant: fields and constructor (lines 15-46).                         *)
(* `value` is boolean | string | number | null, tagged by t.               *)
(***************************************************************************)
NullValue == [t |-> "null", b |-> FALSE, s |-> <<>>, n |-> NaN]
BooleanValue(b) == [t |-> "boolean", b |-> b, s |-> <<>>, n |-> NaN]
StringValue(s) == [t |-> "string", b |-> FALSE, s |-> s, n |-> NaN]
NumberValue(n) == [t |-> "number", b |-> FALSE, s |-> <<>>, n |-> n]

LiteralTypes == {"identifier", "string", "int", "float", "boolean"}

\* DeriveValue without the finite/NaN test of lines 38-40
DeriveValueNoNullCheck(literalType, raw) ==
    IF literalType \in {"int", "float"} THEN NumberValue(Number(raw))
    ELSE IF literalType = "string" THEN StringValue(Slice1(raw))
    ELSE IF literalType = "boolean" THEN BooleanValue(raw = T_true)
    ELSE StringValue(raw)

DeriveValue(literalType, raw) ==
    IF literalType \in {"int", "float"}
    THEN LET n == Number(raw)
         IN  IF ~isFinite(n) \/ isNaN(n) THEN NullValue ELSE NumberValue(n)
    ELSE IF literalType = "string" THEN StringValue(Slice1(raw))
    ELSE IF literalType = "boolean" THEN BooleanValue(raw = T_true)
    ELSE StringValue(raw)

Constant(literalType, raw, startPos, endPos) ==
    [literalType |-> literalType, raw |-> raw, start |-> startPos,
     end |-> endPos, value |-> DeriveValue(literalType, raw)]

NoNode ==
    [literalType |-> "none", raw |-> <<>>, start |-> <<0, 0>>,
     end |-> <<0, 0>>, value |-> NullValue]

(***************************************************************************)
(* Token source (Scanner, imported from deps.ts; expectFullIdent from      *)
(* util.ts).  A token is [kind, text].  The scanner reports the kind of    *)
(* the token just scanned, its text (contents), and the positions just     *)
(* before (startPos) and just after (endPos) it, as [line, column].        *)
(* Past the last token scan() yields eof with empty text.  The token       *)
(* source does not tie a token's text to its kind: parse is handed both.   *)
(***************************************************************************)
Tok(kind, text) == [kind |-> kind, text |-> text]

Tokens ==
    { Tok("string", T_str),
      Tok("identifier", T_true), Tok("identifier", T_false),
      Tok("identifier", T_my),
      Tok("int", T_int), Tok("int", T_hex), Tok("float", T_big),
      Tok("token", T_minus), Tok("token", T_plus), Tok("token", T_dot),
      Tok("keyword", T_inf), Tok("keyword", T_nan), Tok("keyword", T_true) }

Streams == UNION { [1..n -> Tokens] : n \in 0..MaxTokens }

\* position just before / just after the i-th token of stream inp, where the
\* token at index nl (if any) starts a new line, the first token is otherwise
\* indented, and the others follow the previous token after one column
RECURSIVE EndOf(_, _, _)
StartOf(inp, nl, i) ==
    IF i = 1 THEN (IF nl = 1 THEN <<1, 0>> ELSE <<0, 8>>)
    ELSE LET pe == EndOf(inp, nl, i - 1)
         IN  IF nl = i THEN <<pe[1] + 1, 0>> ELSE <<pe[1], pe[2] + 1>>
EndOf(inp, nl, i) ==
    IF i = 0 THEN <<0, 0>>
    ELSE LET ps == StartOf(inp, nl, i)
         IN  <<ps[1], ps[2] + Len(inp[i].text)>>

NewScanner ==
    [idx |-> 0, tok |-> "none", contents |-> <<>>,
     startPos |-> <<0, 0>>, endPos |-> <<0, 0>>]

\* scanner.scan(): advance to the next token
Scan(sc, inp, nl) ==
    IF sc.idx < Len(inp)
    THEN LET i == sc.idx + 1
         IN  [idx |-> i, tok |-> inp[i].kind, contents |-> inp[i].text,
              startPos |-> StartOf(inp, nl, i), endPos |-> EndOf(inp, nl, i)]
    ELSE [idx |-> Len(inp) + 1, tok |-> "eof", contents |-> <<>>,
          startPos |-> EndOf(inp, nl, Len(inp)),
          endPos |-> EndOf(inp, nl, Len(inp))]

\* number of tokens of inp the scanner has consumed
Consumed(sc, inp) == IF sc.idx > Len(inp) THEN Len(inp) ELSE sc.idx

NextIs(sc, inp, kind, text) ==
    sc.idx < Len(inp) /\ inp[sc.idx + 1] = Tok(kind, text)

\* expectFullIdent(scanner, false): the current token is the first segment;
\* consume every following "." identifier pair.  A "." not followed by an
\* identifier is a token-source error.  Returns [ok, sc, name].
RECURSIVE ExpectFullIdent(_, _, _, _)
ExpectFullIdent(sc, inp, nl, name) ==
    IF NextIs(sc, inp, "token", T_dot)
    THEN LET dot == Scan(sc, inp, nl)
             seg == Scan(dot, inp, nl)
         IN  IF seg.tok = "identifier"
             THEN ExpectFullIdent(seg, inp, nl, name \o T_dot \o seg.contents)
             ELSE [ok |-> FALSE, sc |-> seg, name |-> name \o T_dot]
    ELSE [ok |-> TRUE, sc |-> sc, name |-> name]

\* the text of tokens i..j of the stream, concatenated
RECURSIVE Lexeme(_, _, _)
Lexeme(inp, i, j) ==
    IF i > j THEN <<>> ELSE Lexeme(inp, i, j - 1) \o inp[j].text

(***************************************************************************)
(* Constant.parse (lines 68-101), one step per awaited operation.          *)
(***************************************************************************)
\* Classify with the boolean arm of lines 75-78 left out
ClassifyNoBooleanArm(tk, val) ==
    IF tk = "string" THEN "string"
    ELSE IF tk = "identifier" THEN "identifier"
    ELSE IF tk = "int" THEN "int"
    ELSE IF tk = "float" THEN "float"
    ELSE IF tk = "token" /\ (val = T_minus \/ val = T_plus) THEN "sign"
    ELSE IF tk = "keyword" /\ (val = T_inf \/ val = T_nan) THEN "int"
    ELSE "throw"

\* lines 73-99: which arm of the if/else-if chain the first token takes.
\* Line 76 reads  token === identifier && value === "false" || value === "true",
\* in which && binds tighter than ||.
Classify(tk, val) ==
    IF tk = "string" THEN "string"
    ELSE IF (tk = "identifier" /\ val = T_false) \/ val = T_true THEN "boolean"
    ELSE IF tk = "identifier" THEN "identifier"
    ELSE IF tk = "int" THEN "int"
    ELSE IF tk = "float" THEN "float"
    ELSE IF tk = "token" /\ (val = T_minus \/ val = T_plus) THEN "sign"
    ELSE IF tk = "keyword" /\ (val = T_inf \/ val = T_nan) THEN "int"
    ELSE "throw"

\* lines 69-72
ParseScan ==
    /\ pc = "start"
    /\ scanner' = Scan(scanner, input, nlAt)
    /\ token' = scanner'.tok
    /\ start' = scanner'.startPos
    /\ value' = scanner'.contents
    /\ type' = "string"
    /\ fetches' = fetches + 1
    /\ scans' = scans + 1
    /\ pc' = "classify"
    /\ UNCHANGED <<input, nlAt, sign, node, err, out>>

\* lines 73-99, up to the next await, throw or the return
ParseClassify ==
    /\ pc = "classify"
    /\ LET arm == Classify(token, value)
       IN  CASE arm = "identifier" ->
                  /\ type' = "identifier"
                  /\ pc' = "fullIdent"
                  /\ UNCHANGED <<sign, err>>
             [] arm = "sign" ->
                  /\ sign' = value
                  /\ pc' = "sign"
                  /\ UNCHANGED <<type, err>>
             [] arm = "throw" ->
                  /\ err' = "TokenError"
                  /\ pc' = "threw"
                  /\ UNCHANGED <<type, sign>>
             [] OTHER ->
                  /\ type' = arm
                  /\ pc' = "return"
                  /\ UNCHANGED <<sign, err>>
    /\ UNCHANGED <<input, nlAt, scanner, token, start, value, fetches, scans,
                   node, out>>

\* line 81: await expectFullIdent(scanner, false); its result is dropped
ParseFullIdent ==
    /\ pc = "fullIdent"
    /\ LET r == ExpectFullIdent(scanner, input, nlAt, scanner.contents)
       IN  /\ scanner' = r.sc
           /\ IF r.ok THEN pc' = "return" /\ err' = err
              ELSE pc' = "threw" /\ err' = "ScanError"
    /\ fetches' = fetches + 1
    /\ UNCHANGED <<input, nlAt, token, start, value, type, sign, scans, node,
                   out>>

\* ParseSign that keeps only the keyword text, dropping the sign (line 91)
ParseSignDropsSign ==
    /\ pc = "sign"
    /\ scanner' = Scan(scanner, input, nlAt)
    /\ IF scanner'.tok = "keyword" /\ scanner'.contents = T_inf
       THEN type' = "int" /\ value' = scanner'.contents
       ELSE UNCHANGED <<type, value>>
    /\ fetches' = fetches + 1
    /\ scans' = scans + 1
    /\ pc' = "return"
    /\ UNCHANGED <<input, nlAt, token, start, sign, node, err, out>>

\* lines 88-92: the inner `token` shadows the outer one
ParseSign ==
    /\ pc = "sign"
    /\ scanner' = Scan(scanner, input, nlAt)
    /\ IF scanner'.tok = "keyword" /\ scanner'.contents = T_inf
       THEN type' = "int" /\ value' = sign \o scanner'.contents
       ELSE UNCHANGED <<type, value>>
    /\ fetches' = fetches + 1
    /\ scans' = scans + 1
    /\ pc' = "return"
    /\ UNCHANGED <<input, nlAt, token, start, sign, node, err, out>>

\* ParseReturn that passes scanner.startPos where line 100 passes endPos
ParseReturnEndIsStartPos ==
    /\ pc = "return"
    /\ node' = Constant(type, value, start, scanner.startPos)
    /\ pc' = "done"
    /\ UNCHANGED <<input, nlAt, scanner, token, start, value, type, sign,
                   fetches, scans, err, out>>

\* line 100
ParseReturn ==
    /\ pc = "return"
    /\ node' = Constant(type, value, start, scanner.endPos)
    /\ pc' = "done"
    /\ UNCHANGED <<input, nlAt, scanner, token, start, value, type, sign,
                   fetches, scans, err, out>>

(***************************************************************************)
(* Operations on the returned node (lines 48-66).                          *)
(***************************************************************************)
NoOut == [op |-> "none"]

\* lines 48-50
toProto(n) == n.raw

\* lines 52-61
toJSON(n) ==
    [type |-> "Constant", start |-> n.start, end |-> n.end,
     literalType |-> n.literalType, raw |-> n.raw, value |-> n.value]

\* accept with lines 64 and 65 exchanged
AcceptCallsSpecificFirst(v) ==
    LET first == IF v.hasVisitConstant THEN <<"visitConstant">> ELSE <<>>
        second == IF v.hasVisit THEN <<"visit">> ELSE <<>>
    IN  first \o second

\* lines 63-66: the hook calls accept makes, in order.  A visitor is
\* [hasVisit, hasVisitConstant, visitThrows]; a throwing hook ends accept.
AcceptCalls(v) ==
    LET first == IF v.hasVisit THEN <<"visit">> ELSE <<>>
        goesOn == ~(v.hasVisit /\ v.visitThrows)
        second == IF goesOn /\ v.hasVisitConstant THEN <<"visitConstant">>
                  ELSE <<>>
    IN  first \o second

Visitors ==
    { v \in [hasVisit : BOOLEAN, hasVisitConstant : BOOLEAN,
             visitThrows : BOOLEAN] : v.visitThrows => v.hasVisit }

ToProto ==
    /\ pc = "done"
    /\ out' = [op |-> "toProto", text |-> toProto(node)]
    /\ UNCHANGED <<input, nlAt, scanner, pc, token, start, value, type, sign,
                   fetches, scans, node, err>>

ToJSON ==
    /\ pc = "done"
    /\ out' = [op |-> "toJSON", json |-> toJSON(node)]
    /\ UNCHANGED <<input, nlAt, scanner, pc, token, start, value, type, sign,
                   fetches, scans, node, err>>

Accept ==
    /\ pc = "done"
    /\ \E v \in Visitors :
         out' = [op |-> "accept", visitor |-> v, calls |-> AcceptCalls(v)]
    /\ UNCHANGED <<input, nlAt, scanner, pc, token, start, value, type, sign,
                   fetches, scans, node, err>>

Init ==
    /\ input \in Streams
    /\ nlAt \in 0..Len(input)
    /\ scanner = NewScanner
    /\ pc = "start"
    /\ token = "none"
    /\ start = <<0, 0>>
    /\ value = <<>>
    /\ type = "string"
    /\ sign = <<>>
    /\ fetches = 0
    /\ scans = 0
    /\ node = NoNode
    /\ err = "none"
    /\ out = NoOut

Next ==
    \/ ParseScan
    \/ ParseClassify
    \/ ParseFullIdent
    \/ ParseSign
    \/ ParseReturn
    \/ ToProto
    \/ ToJSON
    \/ Accept

Spec == Init /\ [][Next]_vars

(***************************************************************************)
(* Properties                                                              *)
(***************************************************************************)
\* the first token scan() hands to parse (eof on an empty stream)
FirstTok == IF Len(input) >= 1 THEN input[1] ELSE Tok("eof", <<>>)
\* the token the second scan() yields
SecondTok == IF Len(input) >= 2 THEN input[2] ELSE Tok("eof", <<>>)

FirstIsSign == FirstTok.kind = "token" /\ FirstTok.text \in {T_minus, T_plus}
FirstIsBooleanIdent ==
    FirstTok.kind = "identifier" /\ FirstTok.text \in {T_true, T_false}
FirstIsPlainIdent ==
    FirstTok.kind = "identifier" /\ FirstTok.text \notin {T_true, T_false}
FirstIsInfNan == FirstTok.kind = "keyword" /\ FirstTok.text \in {T_inf, T_nan}
SecondIsInf == SecondTok = Tok("keyword", T_inf)

\* the text of every token parse consumed
ConsumedLexeme == Lexeme(input, 1, Consumed(scanner, input))

PosLE(p, q) == p[1] < q[1] \/ (p[1] = q[1] /\ p[2] <= q[2])

\* C1: whenever parse returns a node, toProto() of the node is the
\* concatenated text of every token parse consumed.
C1_RoundTrip ==
    pc = "done" => toProto(node) = ConsumedLexeme

\* C2: a first token that is no string, identifier, int or float literal,
\* not the symbol + or -, and not the keyword inf or nan makes parse raise
\* TokenError and return no node.
C2_UnrecognizedRaises ==
    ( /\ pc \in {"fullIdent", "sign", "return", "done", "threw"}
      /\ FirstTok.kind \notin {"string", "identifier", "int", "float"}
      /\ ~FirstIsSign
      /\ ~FirstIsInfNan )
    => (pc = "threw" /\ err = "TokenError" /\ node = NoNode)

\* C3: the returned node has kind boolean exactly when the first token is an
\* identifier with text true or false, and then value is (text = "true").
C3_BooleanRecognition ==
    pc = "done" =>
        /\ (node.literalType = "boolean") <=> FirstIsBooleanIdent
        /\ node.literalType = "boolean"
              => node.value = BooleanValue(FirstTok.text = T_true)

\* C4: for a first token that is an identifier other than true/false the
\* node has kind identifier, value equal to the whole identifier text
\* consumed, and end equal to the token source's end position.
C4_IdentifierLiteral ==
    (pc = "done" /\ FirstIsPlainIdent) =>
        /\ node.literalType = "identifier"
        /\ node.value = StringValue(ConsumedLexeme)
        /\ node.end = scanner.endPos

\* C5: a sign followed by the keyword inf, or a bare keyword inf or nan,
\* yields kind int, raw text sign+inf (resp. the keyword text), value null.
C5_InfNan ==
    /\ (pc = "done" /\ FirstIsSign /\ SecondIsInf) =>
          /\ node.literalType = "int"
          /\ toProto(node) = FirstTok.text \o T_inf
          /\ node.value = NullValue
    /\ (pc = "done" /\ FirstIsInfNan) =>
          /\ node.literalType = "int"
          /\ toProto(node) = FirstTok.text
          /\ node.value = NullValue

C5_Witness ==
    /\ pc = "done"
    /\ FirstTok = Tok("token", T_minus) /\ SecondIsInf
    /\ node.raw = <<"-", "i", "n", "f">>
    /\ node.value.t = "null"

\* C6: in every returned node, kind boolean has a boolean value, kinds
\* string and identifier a string value, kinds int and float a finite number
\* or null; null occurs for no other kind and no value is NaN or infinite.
C6_KindValueConsistency ==
    pc = "done" =>
        /\ node.literalType \in LiteralTypes
        /\ node.literalType = "boolean" => node.value.t = "boolean"
        /\ node.literalType \in {"string", "identifier"}
              => node.value.t = "string"
        /\ node.literalType \in {"int", "float"}
              => node.value.t \in {"number", "null"}
        /\ node.value.t = "null" => node.literalType \in {"int", "float"}
        /\ node.value.t = "number" => node.value.n.k = "fin"

C6_Witness ==
    /\ pc = "done"
    /\ FirstTok = Tok("float", T_big)
    /\ node.literalType = "float"
    /\ node.value = NullValue

Count(c, h) == Cardinality({i \in 1..Len(c) : c[i] = h})

\* C7: accept calls visit at most once and only if the visitor has it, then
\* visitConstant at most once and only if the visitor has it; visit comes
\* strictly first when both are called; with neither hook nothing is called.
C7_AcceptOrdering ==
    out.op = "accept" =>
        LET c == out.calls
            v == out.visitor
        IN  /\ \A i \in 1..Len(c) : c[i] \in {"visit", "visitConstant"}
            /\ Count(c, "visit") <= 1
            /\ Count(c, "visitConstant") <= 1
            /\ Count(c, "visit") = 1 => v.hasVisit
            /\ Count(c, "visitConstant") = 1 => v.hasVisitConstant
            /\ v.hasVisit => (c # <<>> /\ c[1] = "visit")
            /\ (v.hasVisitConstant /\ ~v.visitThrows)
                  => c[Len(c)] = "visitConstant"
            /\ (~v.hasVisit /\ ~v.hasVisitConstant) => c = <<>>

C7_Witness ==
    /\ out.op = "accept"
    /\ out.visitor.hasVisit /\ out.visitor.hasVisitConstant
    /\ out.calls = <<"visit", "visitConstant">>

\* C8: parse awaits the token source at most twice; the second await (a
\* second scan or the identifier continuation) happens only when the first
\* token is a sign or a non-boolean identifier; on every other path,
\* TokenError included, parse ends having scanned exactly one token.
C8_BoundedFetches ==
    /\ fetches <= 2
    /\ fetches = 2 => (FirstIsSign \/ FirstIsPlainIdent)
    /\ (pc \in {"done", "threw"} /\ ~FirstIsSign /\ ~FirstIsPlainIdent)
          => (fetches = 1 /\ scans = 1 /\ scanner.idx = 1)

C8_Witness ==
    /\ pc = "done"
    /\ FirstIsSign
    /\ fetches = 2
    /\ scanner.idx = 2

\* C9: the node's start is the start position of the first consumed token,
\* its end is the end position of the last token this call consumed, and
\* start <= end in (line, column) order.
C9_SourceSpan ==
    pc = "done" =>
        /\ node.start = StartOf(input, nlAt, 1)
        /\ node.end = EndOf(input, nlAt, Consumed(scanner, input))
        /\ PosLE(node.start, node.end)

C9_Witness ==
    /\ pc = "done"
    /\ Consumed(scanner, input) = 2
    /\ nlAt = 2
    /\ node.end[1] > node.start[1]
    /\ node.end[2] < node.start[2]

\* C10: a node of kind string comes only from a first token that is a string
\* literal; a sign followed by anything but the keyword inf yields no node.
C10_StringProvenance ==
    /\ (pc = "done" /\ node.literalType = "string")
          => FirstTok.kind = "string"
    /\ (FirstIsSign /\ ~SecondIsInf) => pc # "done"

====
